---- MODULE Spec2Model ----
(***************************************************************************)
(* atlite/wind.py: extrapolate_wind_speed(ds, to_height, from_height=None) *)
(*                                                                         *)
(* A variable name is a sequence of one-character strings, so that the     *)
(* slicing, prefix test, integer parsing and formatting of the code are    *)
(* computed and not assumed.  A dataset is the ordered sequence of its     *)
(* data-variable names (the iteration order of `for s in ds`); the i-th    *)
(* name is bound to the DataArray object heap[i].  One further heap slot   *)
(* holds the array a call constructs.  Heights are counted in half metres  *)
(* where fractions matter (to_height); from_height is an integer number of *)
(* metres or absent.  np.log is kept uninterpreted: an extrapolated        *)
(* element is the term w * (ln(to/z) / ln(hf/z)) recorded by its four      *)
(* operands; floating-point rounding is not modelled.                      *)
(***************************************************************************)
EXTENDS Integers, Sequences, FiniteSets, TLC

VARIABLES ds, heap, to_height, from_height, result

vars == <<ds, heap, to_height, from_height, result>>

\* Largest number of data variables in a dataset.
MaxVars == 3
\* Length of the time axis and of the spatial axis.
NT == 2
NX == 2

Times == 1..NT
Locs == 1..NX

-----------------------------------------------------------------------------
\* Strings as character sequences

DigitChars == <<"0", "1", "2", "3", "4", "5", "6", "7", "8", "9">>

IsDigit(c) == \E i \in 1..10 : DigitChars[i] = c

DigitVal(c) == (CHOOSE i \in 1..10 : DigitChars[i] = c) - 1

\* str(n) for a natural number n
RECURSIVE Digits(_)
Digits(n) == IF n < 10 THEN <<DigitChars[n + 1]>>
             ELSE Digits(n \div 10) \o <<DigitChars[(n % 10) + 1]>>

\* value of a non-empty digit string, as int() reads it (leading zeros allowed)
RECURSIVE DigitsValue(_)
DigitsValue(s) == IF Len(s) = 0 THEN 0
                  ELSE 10 * DigitsValue(SubSeq(s, 1, Len(s) - 1)) + DigitVal(s[Len(s)])

AllDigits(s) == Len(s) > 0 /\ \A i \in 1..Len(s) : IsDigit(s[i])

HasSign(s) == Len(s) > 0 /\ s[1] \in {"+", "-"}

\* int(s) on a string: an optional sign followed by decimal digits; anything
\* else raises ValueError.  (Surrounding blanks and digit-group underscores,
\* which int() also accepts, do not occur in the names considered.)
IntParses(s) == IF HasSign(s) THEN AllDigits(Tail(s)) ELSE AllDigits(s)

IntValue(s) == IF HasSign(s)
               THEN (IF s[1] = "-" THEN 0 - DigitsValue(Tail(s)) ELSE DigitsValue(Tail(s)))
               ELSE DigitsValue(s)

\* s.startswith("wnd")
StartsWithWnd(s) == Len(s) >= 3 /\ SubSeq(s, 1, 3) = <<"w", "n", "d">>

\* s[3:-1]
HeightSlice(s) == SubSeq(s, 4, Len(s) - 1)

\* "{h:0d}".format(h=h)
FormatInt(h) == IF h < 0 THEN <<"-">> \o Digits(0 - h) ELSE Digits(h)

\* "wnd{h:0d}m".format(h=h)
WndName(h) == <<"w", "n", "d">> \o FormatInt(h) \o <<"m">>

\* int(to_height) for a positive height given in half metres
IntHeight(to2) == to2 \div 2

\* "{ht}".format(ht=to_height): "40" for the int 40, "40.5" for the float 40.5
FormatHeight(to2) == IF to2 % 2 = 0 THEN Digits(to2 \div 2)
                     ELSE Digits(to2 \div 2) \o <<".", "5">>

\* the spec's pattern wnd<H>m, H an integer
IsWndPattern(s) == /\ Len(s) >= 5
                   /\ StartsWithWnd(s)
                   /\ s[Len(s)] = "m"
                   /\ AllDigits(HeightSlice(s))

-----------------------------------------------------------------------------
\* The dataset

Roughness == <<"r", "o", "u", "g", "h", "n", "e", "s", "s">>

\* `name in ds`
Contains(d, name) == \E i \in 1..Len(d) : d[i] = name

\* position of the variable `name` in d, 0 when it is absent
IndexOf(d, name) == IF Contains(d, name)
                    THEN CHOOSE i \in 1..Len(d) : d[i] = name
                    ELSE 0

\* the heap slot of the array a call constructs
Fresh(d) == Len(d) + 1

NoArray == [name |-> <<>>, values |-> <<>>, attrs |-> {}]

-----------------------------------------------------------------------------
\* Height discovery (from_height is None)

\* [s for s in ds if s.startswith("wnd")], in iteration order
WndVars(d) == SelectSeq(d, StartsWithWnd)

\* int(s[3:-1]) raises ValueError for one of them
DiscoveryRaises(d) == \E i \in 1..Len(WndVars(d)) : ~IntParses(HeightSlice(WndVars(d)[i]))

\* heights = np.asarray([int(s[3:-1]) for s in ds if s.startswith("wnd")])
Heights(d) == [i \in 1..Len(WndVars(d)) |-> IntValue(HeightSlice(WndVars(d)[i]))]

Abs(x) == IF x < 0 THEN 0 - x ELSE x

\* np.abs(heights - to_height)[i], in half metres
Distance(h, to2) == Abs(2 * h - to2)

\* np.argmin(np.abs(heights - to_height)): the first index of the minimum
ArgMin(hs, to2) == CHOOSE i \in 1..Len(hs) :
                     /\ \A j \in 1..Len(hs) : Distance(hs[i], to2) <= Distance(hs[j], to2)
                     /\ \A j \in 1..(i - 1) : Distance(hs[j], to2) > Distance(hs[i], to2)

\* heights[np.argmin(np.abs(heights - to_height))]
ClosestHeight(d, to2) == Heights(d)[ArgMin(Heights(d), to2)]

-----------------------------------------------------------------------------
\* Outcomes of a call

\* from_name = "wnd{h:0d}m".format(h=int(from_height))
FromName(hf) == WndName(hf[1])

NoResult == [kind |-> "none", ref |-> 0, exc |-> "", hf |-> <<>>]

Return(ref, hf) == [kind |-> "return", ref |-> ref, exc |-> "", hf |-> hf]

Raise(exc, hf) == [kind |-> "raise", ref |-> 0, exc |-> exc, hf |-> hf]

\* the emptiness check is lost and the lookup of a name fails instead
WindSpeedLookupError == Raise("KeyError", <<>>)

\* raise AssertionError("Wind speed is not in dataset")
WindSpeedNotInDataset == Raise("AssertionError", <<>>)

\* the lookup failure is reported as the discovery failure
VariableNotFoundAsAssertion(hf) == Raise("AssertionError", hf)

\* ds[from_name] or ds['roughness'] on an absent variable: KeyError
VariableNotFound(hf) == Raise("KeyError", hf)

\* ds[from_name], ds['roughness']: one of the two is absent
LookupFails(d, hf) == ~Contains(d, FromName(hf)) \/ ~Contains(d, Roughness)

\* the fast lane without int(): a fractional to_height names no variable
FastLaneNoTruncation(d, to2) == to2 % 2 = 0 /\ Contains(d, WndName(IntHeight(to2)))

\* to_name in ds
FastLane(d, to2) == Contains(d, WndName(IntHeight(to2)))

\* The value of from_height after the `if from_height is None` block, as a
\* one-element sequence; <<>> when the block raises.
SourceHeight(d, to2, fh) ==
    IF fh # <<>> THEN fh
    ELSE IF DiscoveryRaises(d) \/ Len(Heights(d)) = 0 THEN <<>>
    ELSE <<ClosestHeight(d, to2)>>

-----------------------------------------------------------------------------
\* The extrapolation

\* the formula with the truncated target height of the name
LogLawTruncated(w, to2, hf, z) == [w |-> w, to |-> 2 * IntHeight(to2), hf |-> hf, z |-> z]

\* One element of ds[from_name] * (np.log(to_height / z) / np.log(from_height / z)):
\* the term w * (ln(to/z) / ln(hf/z)), to in half metres, hf in metres.
LogLaw(w, to2, hf, z) == [w |-> w, to |-> to2, hf |-> hf, z |-> z]

\* The product's values over the grid; roughness has no time axis and is
\* broadcast along it.
Extrapolated(wnd, rough, to2, hf) ==
    [p \in Times \X Locs |-> LogLaw(wnd[p], to2, hf, rough[p[2]])]

\* The attributes of the product of two arrays: dropped, or a copy of the
\* left operand's when xarray's keep_attrs option is set.
ProductAttrs(src, keep) == IF keep THEN src.attrs ELSE {}

\* "extrapolated {ht} m wind speed using logarithmic method with roughness
\* and {hf} m wind speed".format(ht=to_height, hf=from_height)
LongName(to2, hf) ==
    <<"extrapolated ">> \o FormatHeight(to2)
      \o <<" m wind speed using logarithmic method with roughness and ">>
      \o FormatInt(hf) \o <<" m wind speed">>

Units == <<"m s**-1">>

\* attrs.update({...}): the given keys are overwritten, the others kept
Update(attrs, new) ==
    {a \in attrs : \A n \in new : n[1] # a[1]} \cup new

\* the update without the units
UpdatedAttrsLongNameOnly(attrs, to2, hf) ==
    Update(attrs, {<<"long name", LongName(to2, hf)>>})

\* wnd_spd.attrs.update({"long name": ..., "units": "m s**-1"})
UpdatedAttrs(attrs, to2, hf) ==
    Update(attrs, {<<"long name", LongName(to2, hf)>>, <<"units", Units>>})

\* the result keeps the name of the product
RenameDropped(arr, name) == arr

\* wnd_spd.rename(to_name)
Rename(arr, name) == [arr EXCEPT !.name = name]

\* the product computed in place, in the stored operand
ProductRefInPlace(src, fresh) == src

\* The object that holds ds[from_name] * (...): a new array, not the operand.
ProductRef(src, fresh) == fresh

\* Lines 80-90 once from_name and 'roughness' are found at positions src, rgh.
\* The product of arrays of different names is unnamed.
Extrapolate(d, h, to2, hf, src, rgh, keep) ==
    LET ref == ProductRef(src, Fresh(d))
        prod == [name |-> <<>>,
                 values |-> Extrapolated(h[src].values, h[rgh].values, to2, hf),
                 attrs |-> ProductAttrs(h[src], keep)]
        upd == [prod EXCEPT !.attrs = UpdatedAttrs(prod.attrs, to2, hf)]
    IN  [result |-> Return(ref, <<hf>>),
         heap |-> [h EXCEPT ![ref] = Rename(upd, WndName(IntHeight(to2)))]]

\* extrapolate_wind_speed(ds, to_height, from_height): the result of the call
\* and the heap after it.  The array of an earlier call is no longer referenced.
Call(d, h0, to2, fh, keep) ==
    LET h == [h0 EXCEPT ![Fresh(d)] = NoArray]
        hf == SourceHeight(d, to2, fh)
    IN  IF FastLane(d, to2)
          THEN [result |-> Return(IndexOf(d, WndName(IntHeight(to2))), <<>>), heap |-> h]
        ELSE IF fh = <<>> /\ DiscoveryRaises(d)
          THEN [result |-> Raise("ValueError", <<>>), heap |-> h]
        ELSE IF fh = <<>> /\ Len(Heights(d)) = 0
          THEN [result |-> WindSpeedNotInDataset, heap |-> h]
        ELSE IF LookupFails(d, hf)
          THEN [result |-> VariableNotFound(hf), heap |-> h]
        ELSE Extrapolate(d, h, to2, hf[1], IndexOf(d, FromName(hf)),
                         IndexOf(d, Roughness), keep)

-----------------------------------------------------------------------------
\* Inputs

NameUniverse ==
    { <<"w", "n", "d", "1", "0", "m">>,
      <<"w", "n", "d", "5", "0", "m">>,
      <<"w", "n", "d", "0", "1", "0", "m">>,
      <<"w", "n", "d", "4", "5", "x">>,
      <<"w", "n", "d", "_", "a", "z">>,
      Roughness }

\* the datasets: up to MaxVars distinct variables, in any order
Datasets ==
    UNION { { d \in [1..n -> NameUniverse] : \A i, j \in 1..n : i # j => d[i] # d[j] }
            : n \in 0..MaxVars }

\* to_height in half metres: 10, 10.5, 30, 40 and 40.5 m
ToHeights == {20, 21, 60, 80, 81}

\* from_height: omitted, or 10 or 30 m
FromHeights == {<<>>, <<10>>, <<30>>}

\* attributes the stored variables may carry
StoredAttrs == { {}, {<<"units", <<"knots">>>>, <<"long_name", <<"archive">>>>} }

\* the roughness lengths over the spatial axis (no time axis)
RoughnessField == [x \in Locs |-> x]

\* the i-th stored variable
Stored(d, i, attrs) ==
    [name |-> d[i],
     values |-> IF d[i] = Roughness THEN RoughnessField
                ELSE [p \in Times \X Locs |-> 100 * i + 10 * p[1] + p[2]],
     attrs |-> attrs]

\* the stored arrays of dataset d, and the free slot
HeapOf(d, attrs) ==
    [i \in 1..(Len(d) + 1) |-> IF i <= Len(d) THEN Stored(d, i, attrs) ELSE NoArray]

Init ==
    /\ ds \in Datasets
    /\ \E attrs \in StoredAttrs : heap = HeapOf(ds, attrs)
    /\ to_height = 0
    /\ from_height = <<>>
    /\ result = NoResult

ExtrapolateWindSpeed(to2, fh, keep) ==
    LET out == Call(ds, heap, to2, fh, keep)
    IN  /\ to_height' = to2
        /\ from_height' = fh
        /\ result' = out.result
        /\ heap' = out.heap
        /\ ds' = ds

Next == \E to2 \in ToHeights, fh \in FromHeights, keep \in BOOLEAN :
          ExtrapolateWindSpeed(to2, fh, keep)

Spec == Init /\ [][Next]_vars

-----------------------------------------------------------------------------
\* Properties

Called == result.kind # "none"

ToName == WndName(IntHeight(to_height))

FastPath == Called /\ Contains(ds, ToName)

Omitted == from_height = <<>>

\* the variables of the dataset named wnd<H>m, and their heights
PatternHeights(d) == { IntValue(HeightSlice(d[i])) : i \in {j \in 1..Len(d) : IsWndPattern(d[j])} }

NoPatternVar(d) == \A i \in 1..Len(d) : ~IsWndPattern(d[i])

NoWndPrefix(d) == \A i \in 1..Len(d) : ~StartsWithWnd(d[i])

\* text contains the tokens tok, contiguously
Mentions(text, tok) ==
    \E i \in 1..(Len(text) - Len(tok) + 1) : SubSeq(text, i, i + Len(tok) - 1) = tok

AttrValues(arr, key) == { a[2] : a \in {b \in arr.attrs : b[1] = key} }

\* C1: whenever the dataset holds wnd<int(to_height)>m, the call returns that
\* very stored array, with the values, name and attributes it had before the
\* call, whatever from_height is and whether or not roughness is present.
C1_FastPathReturnsStored ==
    [][ Contains(ds, WndName(IntHeight(to_height'))) =>
          LET i == IndexOf(ds, WndName(IntHeight(to_height')))
          IN  /\ result'.kind = "return"
              /\ result'.ref = i
              /\ heap'[i] = heap[i]
              /\ heap'[i].name = WndName(IntHeight(to_height')) ]_vars

\* a fast-path return for a fractional to_height, with an explicit from_height
\* that names a missing variable and without roughness
C1_Witness ==
    /\ FastPath
    /\ to_height % 2 = 1
    /\ ~Omitted
    /\ ~Contains(ds, FromName(from_height))
    /\ ~Contains(ds, Roughness)
    /\ result = Return(IndexOf(ds, ToName), <<>>)
    /\ heap[result.ref].name = ToName

\* C2: with from_height omitted and no fast path, the source height used is the
\* height of one of the dataset's wnd<H>m variables and no other wnd<H'>m
\* variable is closer to to_height.
C2_ClosestPatternHeight ==
    (Called /\ Omitted /\ ~FastPath /\ result.hf # <<>>) =>
        /\ result.hf[1] \in PatternHeights(ds)
        /\ \A h \in PatternHeights(ds) :
              Distance(result.hf[1], to_height) <= Distance(h, to_height)

\* C3 as stated: with from_height omitted and no wnd<H>m variable in the
\* dataset, the call fails with a MissingDataError.
C3_MissingDataError ==
    (Called /\ Omitted /\ NoPatternVar(ds)) =>
        (result.kind = "raise" /\ result.exc = "MissingDataError")

\* C3 amended: with from_height omitted and no wnd<H>m variable in the dataset
\* the call fails and returns no array, with or without roughness: with an
\* AssertionError when no name starts with "wnd", with a ValueError when the
\* height of such a name does not parse, and with a KeyError otherwise.
C3_DiscoveryFails ==
    (Called /\ Omitted /\ NoPatternVar(ds)) =>
        /\ result.kind = "raise"
        /\ result.ref = 0
        /\ heap[Fresh(ds)] = NoArray
        /\ result.exc = IF NoWndPrefix(ds) THEN "AssertionError"
                        ELSE IF DiscoveryRaises(ds) THEN "ValueError"
                        ELSE "KeyError"

\* an AssertionError for a non-empty dataset that has neither a wind speed
\* nor roughness
C3_Witness ==
    /\ Called /\ Omitted /\ NoPatternVar(ds)
    /\ ~Contains(ds, Roughness)
    /\ result = Raise("AssertionError", <<>>)

\* C4: without the fast path, every element of the returned array is
\* w * ln(to_height / z) / ln(from_height / z): w the element of the source
\* array wnd<from_height>m at the same time and place, z the roughness at the
\* same place, to_height as passed, from_height as given or selected.
C4_Formula ==
    (result.kind = "return" /\ ~FastPath) =>
        /\ from_height # <<>> => result.hf = from_height
        /\ Contains(ds, FromName(result.hf))
        /\ \A t \in Times, x \in Locs :
              heap[result.ref].values[<<t, x>>] =
                [w |-> heap[IndexOf(ds, FromName(result.hf))].values[<<t, x>>],
                 to |-> to_height,
                 hf |-> result.hf[1],
                 z |-> heap[IndexOf(ds, Roughness)].values[x]]

\* an extrapolation to a fractional height from a selected source height
C4_Witness ==
    /\ result.kind = "return" /\ ~FastPath
    /\ Omitted
    /\ to_height % 2 = 1
    /\ result.hf = <<50>>
    /\ \E t \in Times :
          heap[result.ref].values[<<t, 1>>].z # heap[result.ref].values[<<t, NX>>].z

LongNameMentions(arr, to2, hf) ==
    \E text \in AttrValues(arr, "long name") :
        Mentions(text, FormatHeight(to2)) /\ Mentions(text, FormatInt(hf))

\* C6 as stated: every returned array has units "m s**-1" and a long name
\* that mentions to_height and the from_height used.
C6_MetadataAlways ==
    result.kind = "return" =>
        /\ AttrValues(heap[result.ref], "units") = {<<"m s**-1">>}
        /\ \E text \in AttrValues(heap[result.ref], "long name") :
              /\ Mentions(text, FormatHeight(to_height))
              /\ result.hf # <<>> => Mentions(text, FormatInt(result.hf[1]))

\* C6 amended: every array returned by an extrapolation (the fast path not
\* taken) has units "m s**-1" and a long name that mentions to_height and the
\* from_height used.
C6_MetadataOnExtrapolation ==
    (result.kind = "return" /\ ~FastPath) =>
        /\ AttrValues(heap[result.ref], "units") = {<<"m s**-1">>}
        /\ Cardinality(AttrValues(heap[result.ref], "long name")) = 1
        /\ LongNameMentions(heap[result.ref], to_height, result.hf[1])

\* an extrapolation from a source array that carries other units, its
\* attributes kept through the product
C6_Witness ==
    /\ result.kind = "return" /\ ~FastPath
    /\ <<"units", <<"knots">>>> \in heap[IndexOf(ds, FromName(result.hf))].attrs
    /\ <<"long_name", <<"archive">>>> \in heap[result.ref].attrs
    /\ <<"units", <<"m s**-1">>>> \in heap[result.ref].attrs

\* C7: a call, successful or failing, leaves the dataset's variables and each
\* stored array (values, name, attributes) as they were.
C7_NonMutation ==
    [][ /\ ds' = ds
        /\ \A i \in 1..Len(ds) : heap'[i] = heap[i] ]_vars

\* an extrapolation whose result carries the new attributes while the source
\* array and roughness carry none
C7_Witness ==
    /\ result.kind = "return" /\ ~FastPath
    /\ result.ref = Fresh(ds)
    /\ heap[result.ref].attrs # {}
    /\ heap[IndexOf(ds, FromName(result.hf))].attrs = {}
    /\ heap[IndexOf(ds, Roughness)].attrs = {}

LookupCase ==
    \/ ~Omitted /\ ~Contains(ds, FromName(from_height))
    \/ ~Contains(ds, Roughness)

\* C8 as stated: the call fails with a lookup error whenever an explicit
\* from_height names no variable or roughness is absent.
C8_LookupErrorAlways ==
    (Called /\ LookupCase) => (result.kind = "raise" /\ result.exc = "KeyError")

\* C8 amended: when the fast path is not taken and an explicit from_height
\* names no variable or roughness is absent, the call fails and returns no
\* array; the failure is a lookup error unless from_height is omitted and the
\* height discovery itself fails first.
C8_LookupError ==
    (Called /\ ~FastPath /\ LookupCase) =>
        /\ result.kind = "raise"
        /\ result.ref = 0
        /\ heap[Fresh(ds)] = NoArray
        /\ (~Omitted \/ result.hf # <<>>) => result.exc = "KeyError"
        /\ (Omitted /\ result.hf = <<>>) =>
              /\ DiscoveryRaises(ds) \/ NoWndPrefix(ds)
              /\ result.exc \in {"ValueError", "AssertionError"}

\* a lookup error for roughness alone: the explicit source variable exists
C8_Witness ==
    /\ Called /\ ~FastPath
    /\ ~Omitted
    /\ Contains(ds, FromName(from_height))
    /\ ~Contains(ds, Roughness)
    /\ result = Raise("KeyError", from_height)

\* d with the variable n put after its first k variables
InsertAt(d, n, k) == SubSeq(d, 1, k) \o <<n>> \o SubSeq(d, k + 1, Len(d))

\* what a call on dataset d does: return or raise, the error, the source height
Outcome(d, to2, fh) ==
    LET r == Call(d, HeapOf(d, {}), to2, fh, FALSE).result
    IN  <<r.kind, r.exc, r.hf>>

\* C9: with from_height omitted and no fast path, a further variable whose
\* name is not of the form wnd<H>m changes neither the source height nor the
\* outcome of the call.
C9_OtherNamesIgnored ==
    (Called /\ Omitted /\ ~FastPath) =>
        \A n \in {m \in NameUniverse : ~IsWndPattern(m) /\ ~Contains(ds, m)} :
            \A k \in 0..Len(ds) :
                Outcome(InsertAt(ds, n, k), to_height, <<>>) = Outcome(ds, to_height, <<>>)

\* the positions of the wnd<H>m variables closest to to_height
ClosestPatternVars(d, to2) ==
    { i \in 1..Len(d) :
        /\ IsWndPattern(d[i])
        /\ \A h \in PatternHeights(d) :
              Distance(IntValue(HeightSlice(d[i])), to2) <= Distance(h, to2) }

\* C10: with from_height omitted and no fast path, when two or more wnd<H>m
\* variables are equally close to to_height, the source height is that of the
\* first of them in the dataset's iteration order.
C10_FirstOfTied ==
    (Called /\ Omitted /\ ~FastPath /\ Cardinality(ClosestPatternVars(ds, to_height)) >= 2) =>
        LET first == CHOOSE i \in ClosestPatternVars(ds, to_height) :
                        \A j \in ClosestPatternVars(ds, to_height) : i <= j
        IN  result.hf = <<IntValue(HeightSlice(ds[first]))>>

====
